---- MODULE Spec2Model ----
(***************************************************************************)
(* JSON-RPC client libraries of avalanchego: the health, info and AVM      *)
(* clients.  Every public client method allocates a reply, calls           *)
(* requester.SendRequest once with a fixed method name, and returns a      *)
(* value taken from the reply together with the error.  AwaitHealthy polls *)
(* GetLiveness in a sleep/request loop.  Several callers share the clients.*)
(***************************************************************************)
EXTENDS Integers, Sequences, FiniteSets, TLC

\* Largest value of the checks argument of AwaitHealthy that is explored.
MaxChecks == 3

\* Goroutines that share the three clients.
Callers == {"c1", "c2"}

-----------------------------------------------------------------------------
\* Values

\* The nil error.
Nil == [kind |-> "nil", code |-> 0, message |-> ""]

Err(kind) == [kind |-> kind, code |-> 0, message |-> ""]

RemoteError(code, message) == [kind |-> "RemoteError", code |-> code, message |-> message]

\* Zero value of a reply field of Go type t: what `res := &Reply{}` holds.
ZeroValue(t) ==
    CASE t = "id"     -> "ids.Empty"
      [] t = "bool"   -> "false"
      [] t = "string" -> ""
      [] t = "uint32" -> "0"
      [] t = "status" -> "Status(0)"
      [] t = "struct" -> "{}"
      [] OTHER        -> "nil"

\* A value of type t other than the zero value, as a server may return it.
NonZeroValue(t) == IF t = "bool" THEN "true" ELSE "x"

-----------------------------------------------------------------------------
\* The public methods.  name is the Go method name split after its first
\* letter, wire is the method name handed to SendRequest, type is the type of
\* the reply field the method returns, guarded tells whether the method
\* returns a literal (onErr) instead of the reply field when err # nil, and
\* hex tells whether the reply is hex-decoded after a successful request.

Method(client, first, rest, wire, type, guarded, onErr, hex) ==
    [client |-> client, first |-> first, rest |-> rest, wire |-> wire,
     type |-> type, guarded |-> guarded, onErr |-> onErr, hex |-> hex]

GetLiveness == Method("health", "G", "etLiveness", "getLiveness", "bool", FALSE, "", FALSE)

GetNodeID == Method("info", "G", "etNodeID", "getNodeID", "string", FALSE, "", FALSE)
GetNetworkID == Method("info", "G", "etNetworkID", "getNetworkID", "uint32", FALSE, "", FALSE)
GetNetworkName == Method("info", "G", "etNetworkName", "getNetworkName", "string", FALSE, "", FALSE)
GetBlockchainID == Method("info", "G", "etBlockchainID", "getBlockchainID", "string", FALSE, "", FALSE)
Peers == Method("info", "P", "eers", "peers", "slice", FALSE, "", FALSE)
IsBootstrapped == Method("info", "I", "sBootstrapped", "isBootstrapped", "bool", FALSE, "", FALSE)

IssueTx == Method("avm", "I", "ssueTx", "issueTx", "id", TRUE, "ids.Empty", FALSE)
GetTxStatus == Method("avm", "G", "etTxStatus", "getTxStatus", "status", TRUE, "choices.Unknown", FALSE)
GetTx == Method("avm", "G", "etTx", "getTx", "string", TRUE, "nil", TRUE)
GetUTXOs == Method("avm", "G", "etUTXOs", "getUTXOs", "slice", TRUE, "nil", TRUE)
GetAssetDescription == Method("avm", "G", "etAssetDescription", "getAssetDescription", "struct", FALSE, "", FALSE)
GetBalance == Method("avm", "G", "etBalance", "getBalance", "struct", FALSE, "", FALSE)
GetAllBalances == Method("avm", "G", "etAllBalances", "getAllBalances", "struct", FALSE, "", FALSE)
CreateFixedCapAsset == Method("avm", "C", "reateFixedCapAsset", "createFixedCapAsset", "id", TRUE, "ids.Empty", FALSE)
CreateVariableCapAsset == Method("avm", "C", "reateVariableCapAsset", "createVariableCapAsset", "id", TRUE, "ids.Empty", FALSE)
CreateNFTAsset == Method("avm", "C", "reateNFTAsset", "createNFTAsset", "id", TRUE, "ids.Empty", FALSE)
CreateAddress == Method("avm", "C", "reateAddress", "createAddress", "string", TRUE, "", FALSE)
ListAddresses == Method("avm", "L", "istAddresses", "listAddresses", "slice", TRUE, "nil", FALSE)
ExportKey == Method("avm", "E", "xportKey", "exportKey", "string", TRUE, "", FALSE)
ImportKey == Method("avm", "I", "mportKey", "importKey", "string", TRUE, "", FALSE)
Send == Method("avm", "S", "end", "send", "id", TRUE, "ids.Empty", FALSE)
SendMultiple == Method("avm", "S", "endMultiple", "send", "id", TRUE, "ids.Empty", FALSE)
Mint == Method("avm", "M", "int", "mint", "id", TRUE, "ids.Empty", FALSE)
SendNFT == Method("avm", "S", "endNFT", "sendNFT", "id", TRUE, "ids.Empty", FALSE)
MintNFT == Method("avm", "M", "intNFT", "mintNFT", "id", TRUE, "ids.Empty", FALSE)
ImportAVAX == Method("avm", "I", "mportAVAX", "importAVAX", "id", TRUE, "ids.Empty", FALSE)
ExportAVAX == Method("avm", "E", "xportAVAX", "exportAVAX", "id", TRUE, "ids.Empty", FALSE)
Import == Method("avm", "I", "mport", "importAVAX", "id", FALSE, "", FALSE)
Export == Method("avm", "E", "xport", "exportAVAX", "id", FALSE, "", FALSE)

HealthMethods == {GetLiveness}

InfoMethods ==
    {GetNodeID, GetNetworkID, GetNetworkName, GetBlockchainID, Peers, IsBootstrapped}

AVMMethods ==
    {IssueTx, GetTxStatus, GetTx, GetUTXOs, GetAssetDescription, GetBalance,
     GetAllBalances, CreateFixedCapAsset, CreateVariableCapAsset, CreateNFTAsset,
     CreateAddress, ListAddresses, ExportKey, ImportKey, Send, SendMultiple, Mint,
     SendNFT, MintNFT, ImportAVAX, ExportAVAX, Import, Export}

\* The methods that perform one request and return.
Methods == HealthMethods \cup InfoMethods \cup AVMMethods

\* The Go name of a method.
GoName(m) == m.first \o m.rest

MethodOf(name) == CHOOSE m \in Methods : GoName(m) = name

\* The polling wrapper is not a row of the table: it calls GetLiveness.
AwaitHealthyName == "AwaitHealthy"

-----------------------------------------------------------------------------
\* The endpoint requester (utils/rpc), which the clients only call.

\* What happens to one request: the parameters cannot be serialized, the call
\* times out, the transport fails, the server answers with an error payload,
\* or it answers with a result payload that decodes fully ("full"), fails to
\* decode before anything was stored ("none"), or fails to decode after part
\* of the reply was stored ("partial").
Fate(kind, code, message, payload, fill) ==
    [kind |-> kind, code |-> code, message |-> message, payload |-> payload, fill |-> fill]

ErrorPayloads == {<<7, "bad request">>, <<8, "internal error">>}

Fates(t) ==
    {Fate(k, 0, "", "", "") : k \in {"unserializable", "timeout", "transport"}}
    \cup {Fate("error", e[1], e[2], "", "") : e \in ErrorPayloads}
    \cup {Fate("result", 0, "", v, f) :
            v \in {ZeroValue(t), NonZeroValue(t)}, f \in {"full", "none", "partial"}}

NoFate == Fate("", 0, "", "", "")

\* SendRequest(method, params, resultOut) under fate f: the error it returns
\* and what resultOut holds afterwards.
SendRequest(wire, f, resultOut) ==
    CASE f.kind = "unserializable" -> [err |-> Err("EncodingError"), out |-> resultOut]
      [] f.kind = "timeout"        -> [err |-> Err("TimeoutError"), out |-> resultOut]
      [] f.kind = "transport"      -> [err |-> Err("TransportError"), out |-> resultOut]
      [] f.kind = "error"          -> [err |-> RemoteError(f.code, f.message), out |-> resultOut]
      [] f.kind = "result" /\ f.fill = "full"    -> [err |-> Nil, out |-> f.payload]
      [] f.kind = "result" /\ f.fill = "partial" -> [err |-> Err("DecodingError"), out |-> f.payload]
      [] OTHER                     -> [err |-> Err("DecodingError"), out |-> resultOut]

-----------------------------------------------------------------------------
\* State

VARIABLES
    pc,        \* pc[p]: "idle", "loop" (at the for statement), "slept", "done"
    op,        \* op[p]: Go name of the method caller p is in, "" when idle
    checks,    \* checks[p]: the checks argument of p's AwaitHealthy
    i,         \* the loop variables of AwaitHealthy, one per stack frame
    sleeps,    \* sleeps[p]: time.Sleep calls started by p's current call
    sent,      \* sent[p]: method names p's current call handed to SendRequest
    hist,      \* hist[p]: what GetLiveness returned to p's AwaitHealthy, in order
    fate,      \* fate[p]: fate of the request of p's single-request call
    reply,     \* reply[p]: the reply struct of that call after SendRequest
    err,       \* err[p]: the error SendRequest returned to that call
    ret        \* ret[p]: what p's call returned

vars == <<pc, op, checks, i, sleeps, sent, hist, fate, reply, err, ret>>

NoRet == [val |-> "", err |-> Nil]

Init ==
    /\ pc = [p \in Callers |-> "idle"]
    /\ op = [p \in Callers |-> ""]
    /\ checks = [p \in Callers |-> 0]
    /\ i = [p \in Callers |-> 0]
    /\ sleeps = [p \in Callers |-> 0]
    /\ sent = [p \in Callers |-> <<>>]
    /\ hist = [p \in Callers |-> <<>>]
    /\ fate = [p \in Callers |-> NoFate]
    /\ reply = [p \in Callers |-> ""]
    /\ err = [p \in Callers |-> Nil]
    /\ ret = [p \in Callers |-> NoRet]

-----------------------------------------------------------------------------
\* The client methods

\* A reply that is not zeroed before the request.
NewReplyStale(m) == NonZeroValue(m.type)

\* `res := &Reply{}`: every method allocates a fresh reply for its request.
NewReply(m) == ZeroValue(m.type)

\* The request is sent a second time.
DispatchTwice(m) == <<m.wire, m.wire>>

\* The SendRequest calls one invocation of method m makes, by method name.
Dispatch(m) == <<m.wire>>

\* The error of SendRequest is dropped.
ReturnedErrorDropped(m, res, e, hexOK) == [val |-> res, err |-> Nil]

\* What method m returns once SendRequest has returned e and left res in the
\* reply; hexOK tells whether formatter.FromString accepts the reply's text.
Returned(m, res, e, hexOK) ==
    IF m.guarded
    THEN IF e # Nil THEN [val |-> m.onErr, err |-> e]
         ELSE IF m.hex /\ ~hexOK THEN [val |-> "nil", err |-> Err("HexError")]
         ELSE [val |-> res, err |-> Nil]
    ELSE [val |-> res, err |-> e]

\* Caller p invokes one of the methods that perform a single request.
Call(p) ==
    /\ pc[p] = "idle"
    /\ \E m \in Methods :
       \E f \in Fates(m.type) :
       \E hexOK \in (IF m.hex THEN BOOLEAN ELSE {TRUE}) :
          LET r == SendRequest(m.wire, f, NewReply(m)) IN
          /\ op' = [op EXCEPT ![p] = GoName(m)]
          /\ sent' = [sent EXCEPT ![p] = Dispatch(m)]
          /\ fate' = [fate EXCEPT ![p] = f]
          /\ reply' = [reply EXCEPT ![p] = r.out]
          /\ err' = [err EXCEPT ![p] = r.err]
          /\ ret' = [ret EXCEPT ![p] = Returned(m, r.out, r.err, hexOK)]
    /\ pc' = [pc EXCEPT ![p] = "done"]
    /\ UNCHANGED <<checks, i, sleeps, hist>>

-----------------------------------------------------------------------------
\* AwaitHealthy

ChecksRange == -1 .. MaxChecks

\* One loop variable shared by all callers.
LoopVarShared(p) == "c1"

\* Where caller p's loop variable lives: `i := 0` is a local of p's own call.
LoopVar(p) == p

\* `i <= checks`
LoopCondInclusive(iv, c) == iv <= c

\* `i < checks`
LoopCond(iv, c) == iv < c

\* The error test is missing.
ErrIgnored(e) == FALSE

\* `if err != nil { continue }`
ErrContinue(e) == e # Nil

\* `if res.Healthy`
IsHealthy(res) == res = "true"

\* `return false, nil` on a healthy response.
ReturnHealthyAsFalse == [val |-> "false", err |-> Nil]

\* `return true, nil`
ReturnHealthy == [val |-> "true", err |-> Nil]

\* The exhausted loop surfaces an error.
ReturnExhaustedWithError == [val |-> "false", err |-> Err("TransportError")]

\* `return false, nil`
ReturnExhausted == [val |-> "false", err |-> Nil]

\* Caller p enters AwaitHealthy(c, interval): `i := 0`.
AwaitHealthy(p) ==
    /\ pc[p] = "idle"
    /\ \E c \in ChecksRange : checks' = [checks EXCEPT ![p] = c]
    /\ op' = [op EXCEPT ![p] = AwaitHealthyName]
    /\ i' = [i EXCEPT ![LoopVar(p)] = 0]
    /\ pc' = [pc EXCEPT ![p] = "loop"]
    /\ UNCHANGED <<sleeps, sent, hist, fate, reply, err, ret>>

\* The loop condition holds: time.Sleep(interval).
AwaitSleep(p) ==
    /\ pc[p] = "loop"
    /\ LoopCond(i[LoopVar(p)], checks[p])
    /\ sleeps' = [sleeps EXCEPT ![p] = @ + 1]
    /\ pc' = [pc EXCEPT ![p] = "slept"]
    /\ UNCHANGED <<op, checks, i, sent, hist, fate, reply, err, ret>>

\* The loop condition fails: `return false, nil`.
AwaitExhausted(p) ==
    /\ pc[p] = "loop"
    /\ ~LoopCond(i[LoopVar(p)], checks[p])
    /\ ret' = [ret EXCEPT ![p] = ReturnExhausted]
    /\ pc' = [pc EXCEPT ![p] = "done"]
    /\ UNCHANGED <<op, checks, i, sleeps, sent, hist, fate, reply, err>>

\* After the sleep: `res, err := c.GetLiveness()`, then the two tests of the
\* loop body and, unless the call returns, `i++`.  res and err are locals of
\* the loop body; what GetLiveness returned is kept in hist.
AwaitCheck(p) ==
    /\ pc[p] = "slept"
    /\ \E f \in Fates(GetLiveness.type) :
          LET r == SendRequest(GetLiveness.wire, f, NewReply(GetLiveness))
              got == Returned(GetLiveness, r.out, r.err, TRUE)
              exit == ~ErrContinue(got.err) /\ IsHealthy(got.val)
          IN
          /\ sent' = [sent EXCEPT ![p] = @ \o Dispatch(GetLiveness)]
          /\ hist' = [hist EXCEPT ![p] =
                         Append(@, [failed |-> got.err # Nil, healthy |-> got.val])]
          /\ IF exit
             THEN /\ ret' = [ret EXCEPT ![p] = ReturnHealthy]
                  /\ pc' = [pc EXCEPT ![p] = "done"]
                  /\ i' = i
             ELSE /\ i' = [i EXCEPT ![LoopVar(p)] = @ + 1]
                  /\ pc' = [pc EXCEPT ![p] = "loop"]
                  /\ ret' = ret
    /\ UNCHANGED <<op, checks, sleeps, fate, reply, err>>

\* The call has returned; caller p is free to make another call.
Finish(p) ==
    /\ pc[p] = "done"
    /\ pc' = [pc EXCEPT ![p] = "idle"]
    /\ op' = [op EXCEPT ![p] = ""]
    /\ checks' = [checks EXCEPT ![p] = 0]
    /\ i' = [i EXCEPT ![p] = 0]
    /\ sleeps' = [sleeps EXCEPT ![p] = 0]
    /\ sent' = [sent EXCEPT ![p] = <<>>]
    /\ hist' = [hist EXCEPT ![p] = <<>>]
    /\ fate' = [fate EXCEPT ![p] = NoFate]
    /\ reply' = [reply EXCEPT ![p] = ""]
    /\ err' = [err EXCEPT ![p] = Nil]
    /\ ret' = [ret EXCEPT ![p] = NoRet]

Next ==
    \E p \in Callers :
        \/ Call(p)
        \/ AwaitHealthy(p)
        \/ AwaitSleep(p)
        \/ AwaitExhausted(p)
        \/ AwaitCheck(p)
        \/ Finish(p)

Spec == Init /\ [][Next]_vars

-----------------------------------------------------------------------------
\* Auxiliary definitions of the properties

Max(a, b) == IF a >= b THEN a ELSE b

\* Caller p is in AwaitHealthy (running or returned).
InAwait(p) == op[p] = AwaitHealthyName

\* Caller p's single-request method has returned.
SingleDone(p) == pc[p] = "done" /\ op[p] # AwaitHealthyName

\* A GetLiveness return that reports healthy: nil error and Healthy = true.
HealthyReturn(h) == ~h.failed /\ h.healthy = "true"

\* Index of the first GetLiveness return in h that reports healthy, 0 if none.
FirstHealthy(h) ==
    IF \E k \in 1 .. Len(h) : HealthyReturn(h[k])
    THEN CHOOSE k \in 1 .. Len(h) :
            HealthyReturn(h[k]) /\ \A j \in 1 .. (k - 1) : ~HealthyReturn(h[j])
    ELSE 0

\* The sequential meaning of AwaitHealthy(c, interval) run alone against the
\* GetLiveness returns h, from iteration k on: the value returned and the
\* number of requests made ("starved" when h has no return for a request).
RECURSIVE Alone(_, _, _)
Alone(c, h, k) ==
    IF k >= c THEN [val |-> "false", n |-> Max(k, 0)]
    ELSE IF k + 1 > Len(h) THEN [val |-> "starved", n |-> k]
    ELSE IF HealthyReturn(h[k + 1]) THEN [val |-> "true", n |-> k + 1]
    ELSE Alone(c, h, k + 1)

Lower(ch) ==
    CASE ch = "C" -> "c" [] ch = "E" -> "e" [] ch = "G" -> "g" [] ch = "I" -> "i"
      [] ch = "L" -> "l" [] ch = "M" -> "m" [] ch = "P" -> "p" [] ch = "S" -> "s"
      [] OTHER -> ch

\* The Go name of m in lower camel case.
LowerCamel(m) == Lower(m.first) \o m.rest

\* The fate of a request is the success outcome.
Succeeds(f) == f.kind = "result" /\ f.fill = "full"

\* The error kind the specification assigns to a failing fate.
FailureKind(f) ==
    CASE f.kind = "unserializable" -> "EncodingError"
      [] f.kind = "timeout"        -> "TimeoutError"
      [] f.kind = "transport"      -> "TransportError"
      [] f.kind = "error"          -> "RemoteError"
      [] OTHER                     -> "DecodingError"

-----------------------------------------------------------------------------
\* C1: at every point of an AwaitHealthy(checks, interval) call the number of
\* GetLiveness requests issued is at most the number of sleeps started, the
\* sleeps are at most one ahead of the requests, and neither exceeds
\* max(checks, 0); every request is a getLiveness request.
C1_SleepThenRequestWithinChecks ==
    \A p \in Callers :
        InAwait(p) =>
            /\ Len(sent[p]) <= sleeps[p]
            /\ sleeps[p] <= Len(sent[p]) + 1
            /\ sleeps[p] <= Max(checks[p], 0)
            /\ Len(sent[p]) <= Max(checks[p], 0)
            /\ (pc[p] = "slept") = (sleeps[p] = Len(sent[p]) + 1)
            /\ \A k \in 1 .. Len(sent[p]) : sent[p][k] = "getLiveness"

\* A call with checks = 3 that has slept three times and is about to make its
\* third request.
C1_Witness ==
    \E p \in Callers :
        InAwait(p) /\ checks[p] = 3 /\ pc[p] = "slept" /\ sleeps[p] = 3 /\ Len(sent[p]) = 2

\* C2: when the k-th GetLiveness return is the first that reports healthy,
\* AwaitHealthy has returned (true, nil) after exactly k sleeps and k requests,
\* and nothing was slept or requested after it.
C2_EarlyReturnOnHealthy ==
    \A p \in Callers :
        (InAwait(p) /\ FirstHealthy(hist[p]) # 0) =>
            /\ pc[p] = "done"
            /\ ret[p] = [val |-> "true", err |-> Nil]
            /\ sleeps[p] = FirstHealthy(hist[p])
            /\ Len(sent[p]) = FirstHealthy(hist[p])
            /\ Len(hist[p]) = FirstHealthy(hist[p])

\* Unhealthy on returns 1 and 2, healthy on return 3, with checks = 3.
C2_Witness ==
    \E p \in Callers :
        /\ InAwait(p) /\ checks[p] = 3 /\ pc[p] = "done"
        /\ FirstHealthy(hist[p]) = 3
        /\ ret[p].val = "true"

\* C3: AwaitHealthy never returns an error; when no GetLiveness return
\* reported healthy it returns (false, nil) after exactly max(checks, 0)
\* iterations (checks iterations for every checks >= 0).
C3_ExhaustedReturnsFalseNil ==
    \A p \in Callers :
        (InAwait(p) /\ pc[p] = "done") =>
            /\ ret[p].err = Nil
            /\ FirstHealthy(hist[p]) = 0 =>
                  /\ ret[p] = [val |-> "false", err |-> Nil]
                  /\ Len(hist[p]) = Max(checks[p], 0)
                  /\ sleeps[p] = Max(checks[p], 0)
                  /\ Len(sent[p]) = Max(checks[p], 0)

\* An endpoint that errors on each of three checks.
C3_Witness ==
    \E p \in Callers :
        /\ InAwait(p) /\ pc[p] = "done" /\ checks[p] = 3
        /\ Len(hist[p]) = 3
        /\ \A k \in 1 .. 3 : hist[p][k].failed
        /\ ret[p] = [val |-> "false", err |-> Nil]

C5_OneRequestPerMethod ==
    \A p \in Callers :
        /\ SingleDone(p) => Len(sent[p]) = 1
        /\ pc[p] = "idle" => Len(sent[p]) = 0

\* A failed AVM call that issued one request, next to an AwaitHealthy call
\* that issued three.
C5_Witness ==
    \E p, q \in Callers :
        /\ SingleDone(p) /\ MethodOf(op[p]).client = "avm"
        /\ ret[p].err # Nil /\ Len(sent[p]) = 1
        /\ InAwait(q) /\ pc[q] = "done" /\ Len(sent[q]) = 3

\* C6: when the response carries an error payload {code, message}, SendRequest
\* returns RemoteError{code, message}, the reply the method allocated still
\* holds its zero value, and the method returns that error (with the zero
\* reply value when it returns the reply field unguarded).
C6_RemoteErrorLeavesReply ==
    \A p \in Callers :
        (SingleDone(p) /\ fate[p].kind = "error") =>
            /\ err[p] = RemoteError(fate[p].code, fate[p].message)
            /\ reply[p] = ZeroValue(MethodOf(op[p]).type)
            /\ ret[p].err = err[p]
            /\ ~MethodOf(op[p]).guarded => ret[p].val = ZeroValue(MethodOf(op[p]).type)

\* GetNodeID against a server that answers {code: 7, message: "bad request"}.
C6_Witness ==
    \E p \in Callers :
        /\ SingleDone(p) /\ op[p] = "GetNodeID"
        /\ fate[p].kind = "error"
        /\ ret[p] = [val |-> "", err |-> RemoteError(7, "bad request")]

\* C7: under every interleaving of the callers, a returned AwaitHealthy call
\* has the return value and the request count of the same call run alone
\* against the GetLiveness returns it received itself.
C7_CallersDoNotInterfere ==
    \A p \in Callers :
        (InAwait(p) /\ pc[p] = "done") =>
            /\ ret[p].val = Alone(checks[p], hist[p], 0).val
            /\ Len(sent[p]) = Alone(checks[p], hist[p], 0).n
            /\ Len(hist[p]) = Alone(checks[p], hist[p], 0).n

\* One caller's AwaitHealthy has returned true on its second request while
\* the other caller's AwaitHealthy is in its third iteration.
C7_Witness ==
    \E p, q \in Callers :
        /\ p # q
        /\ InAwait(p) /\ pc[p] = "done" /\ ret[p].val = "true" /\ Len(hist[p]) = 2
        /\ InAwait(q) /\ pc[q] = "slept" /\ Len(hist[q]) = 2

\* C8: a GetLiveness return with a non-nil error never makes AwaitHealthy
\* return true, whatever Healthy holds: after it the loop is at its next
\* iteration, or the call has returned (false, nil) because it was the last.
C8_ErrorIsNotHealthy ==
    \A p \in Callers :
        InAwait(p) =>
            \A k \in 1 .. Len(hist[p]) :
                hist[p][k].failed =>
                    \/ k < Len(hist[p])
                    \/ pc[p] \in {"loop", "slept"}
                    \/ /\ pc[p] = "done"
                       /\ ret[p] = [val |-> "false", err |-> Nil]
                       /\ k = checks[p]

\* An erroring return whose reply has Healthy = true, followed by another
\* iteration.
C8_Witness ==
    \E p \in Callers :
        /\ InAwait(p) /\ Len(hist[p]) >= 2
        /\ hist[p][1] = [failed |-> TRUE, healthy |-> "true"]

\* C9: every AVM method that returns an ID returns ids.Empty whenever it
\* returns a non-nil error.
C9_EmptyIDOnError ==
    \A p \in Callers :
        (SingleDone(p) /\ MethodOf(op[p]).client = "avm" /\ MethodOf(op[p]).type = "id") =>
            (ret[p].err # Nil => ret[p].val = "ids.Empty")

\* C10: every AVM method sends its own name in lower camel case, and two
\* different AVM methods never send the same name.
C10_OwnMethodName ==
    \A p, q \in Callers :
        (SingleDone(p) /\ MethodOf(op[p]).client = "avm") =>
            /\ sent[p] = <<LowerCamel(MethodOf(op[p]))>>
            /\ (SingleDone(q) /\ MethodOf(op[q]).client = "avm" /\ op[q] # op[p]) =>
                  sent[q] # sent[p]

====
